---- MODULE Spec2Model ----
(***************************************************************************)
(* Sliding-window rate limiter of backend/app/rate_limiter.py: a Redis     *)
(* sorted-set backend, an in-memory fallback, the fail-open wrapper        *)
(* check_rate_limit and the 429 wrapper require_rate_limit.                *)
(*                                                                         *)
(* Time.  The wall clock is counted in ticks, TicksPerSecond ticks to the  *)
(* second.  time.time() is the clock itself (a float, kept here as a tick  *)
(* count); int(time.time()) is the clock truncated to whole seconds.       *)
(* A handler body contains no suspension point (the redis client is the    *)
(* blocking one, the memory path awaits nothing), so within one process a  *)
(* call runs to its end before the event loop starts the next one: one     *)
(* call is one action.                                                     *)
(***************************************************************************)
EXTENDS Integers, Sequences, FiniteSets, TLC

\* ------------------------------------------------------------------ bounds
\* window_size of the model, in seconds (60 in the source, scaled down)
WindowSize == 1
\* clock resolution: ticks per second
TicksPerSecond == 2
\* max_requests of the model (10 / 5 / 20 in the source, scaled down)
MaxTranslation == 2
MaxAuth == 1
MaxDefault == 3
\* number of calls made to the limiter in one behaviour
MaxCalls == 3
\* number of those calls during which something goes wrong
MaxFaults == 1
\* last clock reading, in ticks: two whole windows after tick 0, when the
\* time-to-live of a key written at tick 0 runs out
MaxClock == 4

\* --------------------------------------------------------------- constants
\* token[-8:]
SuffixLen == 8
\* status_code of the HTTPException
TooManyRequests == 429

\* self.window_size and self.max_requests as the source sets them
SourceWindowSize == 60
SourceMaxTranslation == 10
SourceMaxAuth == 5
SourceMaxDefault == 20

\* None: no client handle, no message
None == <<>>

VARIABLES
    redis,            \* self.redis: the client handle, or None
    redis_available,  \* self.redis_available (Backend Mode)
    window_size,      \* self.window_size, seconds
    max_requests,     \* self.max_requests
    memory_cache,     \* self.memory_cache: key -> list of time.time() readings
    zsets,            \* the store: key -> sorted set, a set of [member, score]
    expiry,           \* the store: key with a time-to-live -> tick at which it is deleted
    clock,            \* wall clock, in ticks
    last,             \* the last call: its inputs, what it read and what it returned
    hist,             \* history: (limit_type, client_id) -> the calls made, in order
    lastAllowed,      \* history: (limit_type, client_id) -> the tick of its last allowed call
    storeCalls,       \* history: number of operations issued to the store
    ncalls,           \* number of calls made
    nfaults,          \* number of calls made during which something went wrong
    solo,             \* a second limiter that is given client A's calls only
    soloLast,         \* what the second limiter returned for A's last call
    otherFailed,      \* a store failure has switched Backend Mode in another client's call
    inst,             \* service instances sharing the store: where each is in its call
    stalled,          \* the store has stopped responding
    logs,             \* history: number of store-failure log records written by calls
    lastRequest,      \* history: the request of the last call
    admitted,         \* /v1/translate: requests past the rate limit, translation not yet called
    translated        \* /v1/translate: calls of translation_service.translate made

vars == <<redis, redis_available, window_size, max_requests, memory_cache, zsets,
          expiry, clock, last, hist, lastAllowed, storeCalls,
          ncalls, nfaults, solo, soloLast, otherFailed, inst, stalled, logs,
          lastRequest, admitted, translated>>

\* ---------------------------------------------------------------- strings
\* A string is a sequence of pieces; ":" and " " are pieces of their own, so
\* that concatenation and splitting are computed, not assumed.
Colon == ":"

\* "Bearer <token>".split(" ") and the token's characters
TokenA == <<"t", "a", "1", "2", "3", "4", "5", "6", "7">>
AddrB == <<"203.0.113.9">>
PeerHost == <<"10.0.0.1">>

NoHeader == <<>>

\* the requests of the model: header "Authorization" as the list its split(" ")
\* gives, header "X-Forwarded-For" as the list its split(",") gives (each
\* already stripped), request.client.host
ReqA == [authorization |-> <<<<"Bearer">>, TokenA>>, forwarded |-> NoHeader, host |-> PeerHost]
ReqB == [authorization |-> NoHeader, forwarded |-> <<AddrB, PeerHost>>, host |-> PeerHost]
Requests == {ReqA, ReqB}

\* "Basic <credentials>".split(" "), with a forwarded-for header
CredC == <<"d", "X", "N", "l", "c", "j", "p", "w", "Y", "X", "N", "z">>
ReqBasic == [authorization |-> <<<<"Basic">>, CredC>>, forwarded |-> <<AddrB>>, host |-> PeerHost]
\* "Bearer".split(" "): one piece, no token
ReqMalformed == [authorization |-> <<<<"Bearer">>>>, forwarded |-> NoHeader, host |-> PeerHost]
\* no header at all
ReqPeer == [authorization |-> NoHeader, forwarded |-> NoHeader, host |-> PeerHost]
AllRequests == Requests \cup {ReqBasic, ReqMalformed, ReqPeer}

LimitTypes == {<<"translation">>, <<"auth">>}
\* a limit_type that is not a key of self.max_requests
UnknownType == <<"voice">>
AllLimitTypes == LimitTypes \cup {UnknownType}

\* token[-8:]
Suffix(s, n) == IF Len(s) <= n THEN s ELSE SubSeq(s, Len(s) - n + 1, Len(s))

\* _get_client_id
GetClientId(request) ==
    IF request.authorization # NoHeader /\ Len(request.authorization) >= 2
    THEN <<"auth_">> \o Suffix(request.authorization[2], SuffixLen)
    ELSE IF request.forwarded # NoHeader
         THEN request.forwarded[1]
         ELSE request.host

ClientA == GetClientId(ReqA)
ClientB == GetClientId(ReqB)
ClientIds == {GetClientId(r) : r \in AllRequests}

\* mutant: the key leaves the quota class out
MemoryKey_IgnoresType(limit_type, client_id) == client_id
\* mutant: the key leaves the client out
MemoryKey_IgnoresClient(limit_type, client_id) == limit_type \o <<Colon>>

\* f"{limit_type}:{client_id}"
MemoryKey(limit_type, client_id) == limit_type \o <<Colon>> \o client_id
\* f"rate_limit:{limit_type}:{client_id}"
RedisKey(limit_type, client_id) == <<"rate_limit", Colon>> \o limit_type \o <<Colon>> \o client_id

MemoryKeys == {MemoryKey(lt, c) : lt \in LimitTypes, c \in ClientIds}
RedisKeys == {RedisKey(lt, c) : lt \in AllLimitTypes, c \in ClientIds}
Pairs == AllLimitTypes \X ClientIds

\* mutant: every quota class gets the default ceiling
MaxRequestsGet_AlwaysDefault(mr, limit_type) == mr[<<"default">>]

\* self.max_requests.get(limit_type, self.max_requests["default"])
MaxRequestsGet(mr, limit_type) ==
    IF limit_type \in DOMAIN mr THEN mr[limit_type] ELSE mr[<<"default">>]

\* ------------------------------------------------------------------ time
\* int(time.time()), in seconds
IntTime(t) == t \div TicksPerSecond
\* a duration of s seconds, in ticks
Ticks(s) == s * TicksPerSecond

\* ------------------------------------------------------------ the store
\* str(now)
Str(n) == <<"str", n>>

Scores(zset) == {e.score : e \in zset}

\* mutant: the upper end of the range is exclusive
ZRemRangeByScore_Exclusive(zset, lo, hi) == {e \in zset : ~(lo <= e.score /\ e.score < hi)}
\* ZREMRANGEBYSCORE key lo hi
ZRemRangeByScore(zset, lo, hi) == {e \in zset : ~(lo <= e.score /\ e.score <= hi)}
\* ZCARD key
ZCard(zset) == Cardinality(zset)
\* ZADD key score member: a member already in the set only has its score updated
ZAdd(zset, member, score) ==
    {e \in zset : e.member # member} \cup {[member |-> member, score |-> score]}
Without(f, key) == [x \in DOMAIN f \ {key} |-> f[x]]
\* EXPIRE key seconds: no effect on a key that does not exist
Expire(zs, ex, key, seconds, t) ==
    IF zs[key] = {} THEN ex ELSE (key :> (t + Ticks(seconds))) @@ ex
\* a sorted set emptied by a removal is deleted with its time-to-live
DropEmpty(zs, ex, key) == IF zs[key] = {} THEN Without(ex, key) ELSE ex
\* the keys whose time-to-live has run out at tick t are deleted
Expired(ex, t) == {k \in DOMAIN ex : ex[k] <= t}

\* ----------------------------------------------------------------- faults
StoreOps == {"zremrangebyscore", "zcard", "zadd", "expire"}
\* subclasses of redis.RedisError: unreachable, timeout, protocol error
RedisErrors == {"ConnectionError", "TimeoutError", "ResponseError"}
\* any other subclass of Exception
OtherErrors == {"Exception"}
NoFault == [at |-> "none", kind |-> "none"]
Faults ==
    {NoFault}
      \cup [at : StoreOps, kind : RedisErrors \cup OtherErrors]
      \cup [at : {"client_id", "lookup", "memory"}, kind : OtherErrors]

\* mutant: only a connection error is caught
IsRedisError_ConnectionOnly(kind) == kind = "ConnectionError"

\* except redis.RedisError
IsRedisError(kind) == kind \in RedisErrors

\* ---------------------------------------------------------------- outcomes
Return(allowed, message) ==
    [how |-> "return", allowed |-> allowed, message |-> message, exc |-> "none"]
Raise(kind) == [how |-> "raise", allowed |-> FALSE, message |-> None, exc |-> kind]
\* f"Rate limit exceeded. Try again in {self.window_size} seconds."
ExceededMessage(w) == <<"Rate limit exceeded. Try again in ", w, " seconds.">>

\* ------------------------------------------------------------- the limiter
\* The fields of the limiter and of the store that a call reads and writes.
State == [redis |-> redis, redis_available |-> redis_available,
          window_size |-> window_size, max_requests |-> max_requests,
          memory_cache |-> memory_cache, zsets |-> zsets, expiry |-> expiry]

\* What a backend hands back: the state it leaves, its outcome, the store
\* operations it issued, and what it read (the record before the purge, the
\* clock reading, request_count).
Done(st, outcome, ops, backend, before, zbefore, now, count) ==
    [st |-> st, outcome |-> outcome, ops |-> ops, backend |-> backend,
     before |-> before, zbefore |-> zbefore, now |-> now, request_count |-> count,
     log |-> 0]

\* mutant: a timestamp is never purged
InWindow_NeverExpires(now, timestamp, window) == TRUE
\* mutant: a timestamp exactly window_size old is kept
InWindow_Inclusive(now, timestamp, window) == now - timestamp <= Ticks(window)

\* timestamp for timestamp in ... if now - timestamp < self.window_size
\* (now and timestamp in ticks)
InWindow(now, timestamp, window) == now - timestamp < Ticks(window)

\* mutant: the attempt is appended before the count is compared, so a denied
\* attempt is recorded as well
CheckMemoryRateLimit_RecordsFirst(st, client_id, limit_type, max, fault, t) ==
    LET key == MemoryKey(limit_type, client_id)
        now == t
        cache0 == IF key \in DOMAIN st.memory_cache
                  THEN st.memory_cache
                  ELSE st.memory_cache @@ (key :> <<>>)
        before == cache0[key]
        Keep(timestamp) == InWindow(now, timestamp, st.window_size)
        kept == SelectSeq(before, Keep)
        cache1 == [cache0 EXCEPT ![key] = Append(kept, now)]
        request_count == Len(kept)
    IN  IF fault.at = "memory"
        THEN Done([st EXCEPT !.memory_cache = cache0], Raise(fault.kind), <<>>,
                  "memory", before, {}, now, 0)
        ELSE IF request_count >= max
        THEN Done([st EXCEPT !.memory_cache = cache1],
                  Return(FALSE, ExceededMessage(st.window_size)), <<>>,
                  "memory", before, {}, now, request_count)
        ELSE Done([st EXCEPT !.memory_cache = cache1],
                  Return(TRUE, None), <<>>, "memory", before, {}, now, request_count)

\* mutant: every check also drops the other keys whose timestamps have all
\* left the window
CheckMemoryRateLimit_CleansUp(st, client_id, limit_type, max, fault, t) ==
    LET key == MemoryKey(limit_type, client_id)
        now == t
        Live(k) == \E i \in DOMAIN st.memory_cache[k] :
                       InWindow(now, st.memory_cache[k][i], st.window_size)
        swept == [k \in {j \in DOMAIN st.memory_cache : j = key \/ Live(j)}
                    |-> st.memory_cache[k]]
        cache0 == IF key \in DOMAIN swept THEN swept ELSE swept @@ (key :> <<>>)
        before == cache0[key]
        Keep(timestamp) == InWindow(now, timestamp, st.window_size)
        kept == SelectSeq(before, Keep)
        cache1 == [cache0 EXCEPT ![key] = kept]
        request_count == Len(kept)
    IN  IF fault.at = "memory"
        THEN Done([st EXCEPT !.memory_cache = cache0], Raise(fault.kind), <<>>,
                  "memory", before, {}, now, 0)
        ELSE IF request_count >= max
        THEN Done([st EXCEPT !.memory_cache = cache1],
                  Return(FALSE, ExceededMessage(st.window_size)), <<>>,
                  "memory", before, {}, now, request_count)
        ELSE Done([st EXCEPT !.memory_cache = [cache1 EXCEPT ![key] = Append(kept, now)]],
                  Return(TRUE, None), <<>>, "memory", before, {}, now, request_count)

\* _check_memory_rate_limit
CheckMemoryRateLimit(st, client_id, limit_type, max, fault, t) ==
    LET key == MemoryKey(limit_type, client_id)
        now == t
        cache0 == IF key \in DOMAIN st.memory_cache
                  THEN st.memory_cache
                  ELSE st.memory_cache @@ (key :> <<>>)
        before == cache0[key]
        Keep(timestamp) == InWindow(now, timestamp, st.window_size)
        kept == SelectSeq(before, Keep)
        cache1 == [cache0 EXCEPT ![key] = kept]
        request_count == Len(kept)
    IN  IF fault.at = "memory"
        THEN Done([st EXCEPT !.memory_cache = cache0], Raise(fault.kind), <<>>,
                  "memory", before, {}, now, 0)
        ELSE IF request_count >= max
        THEN Done([st EXCEPT !.memory_cache = cache1],
                  Return(FALSE, ExceededMessage(st.window_size)), <<>>,
                  "memory", before, {}, now, request_count)
        ELSE Done([st EXCEPT !.memory_cache = [cache1 EXCEPT ![key] = Append(kept, now)]],
                  Return(TRUE, None), <<>>, "memory", before, {}, now, request_count)

\* mutant: the handler forgets self.redis_available = False
RedisFailure_KeepsMode(st, client_id, limit_type, max, fault, t, ops) ==
    IF IsRedisError(fault.kind)
    THEN LET m == CheckMemoryRateLimit(st, client_id, limit_type, max, NoFault, t)
         IN  [m EXCEPT !.ops = ops, !.log = 1]
    ELSE Done(st, Raise(fault.kind), ops, "redis", <<>>, {}, IntTime(t), 0)

\* except redis.RedisError: self.redis_available = False, then the memory path;
\* any other exception leaves _check_redis_rate_limit
RedisFailure(st, client_id, limit_type, max, fault, t, ops) ==
    IF IsRedisError(fault.kind)
    THEN LET m == CheckMemoryRateLimit([st EXCEPT !.redis_available = FALSE],
                                       client_id, limit_type, max, NoFault, t)
         IN  [m EXCEPT !.ops = ops, !.log = 1]
    ELSE Done(st, Raise(fault.kind), ops, "redis", <<>>, {}, IntTime(t), 0)

\* _check_redis_rate_limit
CheckRedisRateLimit(st, client_id, limit_type, max, fault, t) ==
    LET key == RedisKey(limit_type, client_id)
        now == IntTime(t)
        before == st.zsets[key]
        \* self.redis.zremrangebyscore(key, 0, now - self.window_size)
        zs1 == [st.zsets EXCEPT ![key] = ZRemRangeByScore(@, 0, now - st.window_size)]
        st1 == [st EXCEPT !.zsets = zs1, !.expiry = DropEmpty(zs1, st.expiry, key)]
        \* request_count = self.redis.zcard(key)
        request_count == ZCard(st1.zsets[key])
        \* self.redis.zadd(key, {str(now): now})
        st3 == [st1 EXCEPT !.zsets[key] = ZAdd(@, Str(now), now)]
        \* self.redis.expire(key, self.window_size * 2)
        st4 == [st3 EXCEPT !.expiry = Expire(st3.zsets, @, key, st.window_size * 2, t)]
    IN  IF fault.at = "zremrangebyscore"
        THEN RedisFailure(st, client_id, limit_type, max, fault, t,
                          <<"zremrangebyscore">>)
        ELSE IF fault.at = "zcard"
        THEN RedisFailure(st1, client_id, limit_type, max, fault, t,
                          <<"zremrangebyscore", "zcard">>)
        ELSE IF request_count >= max
        THEN Done(st1, Return(FALSE, ExceededMessage(st.window_size)),
                  <<"zremrangebyscore", "zcard">>, "redis", <<>>, before, now, request_count)
        ELSE IF fault.at = "zadd"
        THEN RedisFailure(st1, client_id, limit_type, max, fault, t,
                          <<"zremrangebyscore", "zcard", "zadd">>)
        ELSE IF fault.at = "expire"
        THEN RedisFailure(st3, client_id, limit_type, max, fault, t,
                          <<"zremrangebyscore", "zcard", "zadd", "expire">>)
        ELSE Done(st4, Return(TRUE, None),
                  <<"zremrangebyscore", "zcard", "zadd", "expire">>,
                  "redis", <<>>, before, now, request_count)

\* mutant: any exception is handled like a store failure and switches the mode
FailOpen_SwitchesMode(r) ==
    IF r.outcome.how = "raise"
    THEN [r EXCEPT !.outcome = Return(TRUE, None), !.backend = "failopen",
                   !.st.redis_available = FALSE]
    ELSE r

\* mutant: no handler, the exception leaves check_rate_limit
FailOpen_Propagates(r) == r

\* except Exception as e: return True, None
FailOpen(r) ==
    IF r.outcome.how = "raise"
    THEN [r EXCEPT !.outcome = Return(TRUE, None), !.backend = "failopen"]
    ELSE r

\* mutant: if self.redis
UseRedis_IgnoresMode(st) == st.redis # None

\* if self.redis_available and self.redis
UseRedis(st) == st.redis_available /\ st.redis # None

\* mutant: every call probes the store again and returns to it when it answers
CheckBody_Reprobes(st, request, limit_type, fault, t) ==
    IF fault.at \in {"client_id", "lookup"}
    THEN Done(st, Raise(fault.kind), <<>>, "none", <<>>, {}, t, 0)
    ELSE LET client_id == GetClientId(request)
             max == MaxRequestsGet(st.max_requests, limit_type)
             st2 == [st EXCEPT !.redis_available = (st.redis # None)]
         IN  IF UseRedis(st2)
             THEN CheckRedisRateLimit(st2, client_id, limit_type, max,
                                      IF fault.at = "memory" THEN NoFault ELSE fault, t)
             ELSE CheckMemoryRateLimit(st2, client_id, limit_type, max, fault, t)

\* the body of the try block of check_rate_limit
CheckBody(st, request, limit_type, fault, t) ==
    IF fault.at \in {"client_id", "lookup"}
    THEN Done(st, Raise(fault.kind), <<>>, "none", <<>>, {}, t, 0)
    ELSE LET client_id == GetClientId(request)
             max == MaxRequestsGet(st.max_requests, limit_type)
         IN  IF UseRedis(st)
             THEN CheckRedisRateLimit(st, client_id, limit_type, max, fault, t)
             ELSE CheckMemoryRateLimit(st, client_id, limit_type, max, fault, t)

\* check_rate_limit
CheckRateLimit(st, request, limit_type, fault, t) ==
    FailOpen(CheckBody(st, request, limit_type, fault, t))

\* mutant: the 429 carries the fixed text, not the message of the check
RequireRateLimit_GenericDetail(outcome) ==
    IF outcome.how = "raise"
    THEN [raised |-> outcome.exc, status |-> 0, detail |-> None]
    ELSE IF ~outcome.allowed
    THEN [raised |-> "HTTPException", status |-> TooManyRequests,
          detail |-> <<"Too many requests">>]
    ELSE [raised |-> "none", status |-> 0, detail |-> None]

\* mutant: the denial is not raised
RequireRateLimit_Silent(outcome) ==
    IF outcome.how = "raise"
    THEN [raised |-> outcome.exc, status |-> 0, detail |-> None]
    ELSE [raised |-> "none", status |-> 0, detail |-> None]

\* require_rate_limit: what the caller gets
RequireRateLimit(outcome) ==
    IF outcome.how = "raise"
    THEN [raised |-> outcome.exc, status |-> 0, detail |-> None]
    ELSE IF ~outcome.allowed
    THEN [raised |-> "HTTPException", status |-> TooManyRequests,
          detail |-> IF outcome.message # None THEN outcome.message
                     ELSE <<"Too many requests">>]
    ELSE [raised |-> "none", status |-> 0, detail |-> None]

\* ------------------------------------------------------------ the machine
\* mutant: the dictionary is written without its "default" entry
InitMaxRequests_NoDefault ==
    (<<"translation">> :> MaxTranslation) @@ (<<"auth">> :> MaxAuth)

\* self.max_requests as __init__ sets it
InitMaxRequests ==
    (<<"translation">> :> MaxTranslation) @@ (<<"auth">> :> MaxAuth)
        @@ (<<"default">> :> MaxDefault)

\* a freshly constructed limiter: the ping succeeded or it raised
NewLimiter(ping_ok) ==
    [redis |-> IF ping_ok THEN <<"client">> ELSE None,
     redis_available |-> ping_ok,
     window_size |-> WindowSize,
     max_requests |-> InitMaxRequests,
     memory_cache |-> <<>>,
     zsets |-> [k \in RedisKeys |-> {}],
     expiry |-> <<>>]

\* the service instances that share the store
Instances == {"i1", "i2"}
\* an instance that is not inside a call
IdleInst ==
    [pc |-> "idle", limit_type |-> <<"translation">>, now |-> 0, count |-> 0,
     result |-> "none", raced |-> FALSE]

NoCall ==
    [limit_type |-> <<"translation">>, fault |-> NoFault, t |-> 0,
     client_id |-> ClientA, was_available |-> FALSE, prev_allowed |-> {},
     backend |-> "none",
     outcome |-> Return(TRUE, None),
     http |-> RequireRateLimit(Return(TRUE, None)),
     ops |-> <<>>, before |-> <<>>, zbefore |-> {}, now |-> 0, request_count |-> 0,
     log |-> 0]

\* the state after the construction of limiter st and of the second limiter
\* other, at clock reading 0
InitPair(st, other) ==
    /\ redis = st.redis
    /\ redis_available = st.redis_available
    /\ window_size = st.window_size
    /\ max_requests = st.max_requests
    /\ memory_cache = st.memory_cache
    /\ zsets = st.zsets
    /\ expiry = st.expiry
    /\ clock = 0
    /\ last = NoCall
    /\ hist = [p \in Pairs |-> <<>>]
    /\ lastAllowed = [p \in Pairs |-> {}]
    /\ storeCalls = 0
    /\ ncalls = 0
    /\ nfaults = 0
    /\ solo = other
    /\ soloLast = NoCall.outcome
    /\ otherFailed = FALSE
    /\ inst = [i \in Instances |-> IdleInst]
    /\ stalled = FALSE
    /\ logs = 0
    /\ lastRequest = ReqA
    /\ admitted = 0
    /\ translated = 0

\* the second limiter is a copy of the first
InitWith(st) == InitPair(st, st)

Init == \E ping_ok \in BOOLEAN : InitWith(NewLimiter(ping_ok))

\* the clock advances by one tick; the store deletes the keys whose
\* time-to-live has run out
AdvanceBy(d) ==
    /\ clock' = clock + d
    /\ LET gone == Expired(expiry, clock + d)
       IN  /\ zsets' = [k \in DOMAIN zsets |-> IF k \in gone THEN {} ELSE zsets[k]]
           /\ expiry' = [k \in DOMAIN expiry \ gone |-> expiry[k]]
           /\ solo' = [solo EXCEPT
                         !.zsets = [k \in DOMAIN @ |->
                                      IF k \in Expired(solo.expiry, clock + d)
                                      THEN {} ELSE @[k]],
                         !.expiry = [k \in DOMAIN @ \ Expired(solo.expiry, clock + d)
                                       |-> @[k]]]
    /\ UNCHANGED <<redis, redis_available, window_size, max_requests, memory_cache,
                   last, hist, lastAllowed, storeCalls, ncalls, nfaults, soloLast,
                   otherFailed, inst, stalled, logs, lastRequest, admitted,
                   translated>>

\* one tick
Advance == AdvanceBy(1)

\* the clock of the model stops at MaxClock
Tick == clock < MaxClock /\ Advance

\* the call reaches the point at which `fault` strikes
Hit(st, limit_type, request, fault, t) ==
    \/ fault.at \in {"client_id", "lookup"}
    \/ fault.at = "memory" /\ ~UseRedis(st)
    \/ /\ fault.at \in StoreOps
       /\ UseRedis(st)
       /\ fault.at \in {"zadd", "expire"} =>
             CheckRedisRateLimit(st, GetClientId(request), limit_type,
                                 MaxRequestsGet(st.max_requests, limit_type),
                                 NoFault, t).outcome.allowed

\* what the call leaves in `last`
CallRecord(request, limit_type, fault, r) ==
    [limit_type |-> limit_type, fault |-> fault, t |-> clock,
     client_id |-> GetClientId(request), was_available |-> redis_available,
     prev_allowed |-> lastAllowed[<<limit_type, GetClientId(request)>>],
     backend |-> r.backend, outcome |-> r.outcome,
     http |-> RequireRateLimit(r.outcome),
     ops |-> r.ops, before |-> r.before, zbefore |-> r.zbefore, now |-> r.now,
     request_count |-> r.request_count, log |-> r.log]

\* one request goes through require_rate_limit(request, limit_type); `fault`
\* is what goes wrong during it
CallStep(request, limit_type, fault, track) ==
    /\ fault # NoFault => Hit(State, limit_type, request, fault, clock)
    /\ nfaults' = IF fault # NoFault THEN nfaults + 1 ELSE nfaults
    /\ \E r \in {CheckRateLimit(State, request, limit_type, fault, clock)},
          pair \in {<<limit_type, GetClientId(request)>>} :
           /\ redis' = r.st.redis
           /\ redis_available' = r.st.redis_available
           /\ window_size' = r.st.window_size
           /\ max_requests' = r.st.max_requests
           /\ memory_cache' = r.st.memory_cache
           /\ zsets' = r.st.zsets
           /\ expiry' = r.st.expiry
           /\ last' = CallRecord(request, limit_type, fault, r)
           /\ hist' = IF track
                      THEN [hist EXCEPT ![pair] = Append(@,
                              [t |-> clock, allowed |-> r.outcome.allowed,
                               backend |-> r.backend])]
                      ELSE hist
           /\ storeCalls' = IF track THEN storeCalls + Len(r.ops) ELSE storeCalls
           /\ lastAllowed' = IF r.outcome.allowed
                             THEN [lastAllowed EXCEPT ![pair] = {clock}]
                             ELSE lastAllowed
           /\ logs' = logs + r.log
           /\ lastRequest' = request
    /\ ncalls' = ncalls + 1

\* a behaviour of the model holds at most MaxCalls calls
CallCore(request, limit_type, fault, track) ==
    ncalls < MaxCalls /\ CallStep(request, limit_type, fault, track)

Call(request, limit_type, fault, track) ==
    /\ CallCore(request, limit_type, fault, track)
    /\ UNCHANGED <<clock, solo, soloLast, otherFailed, inst, stalled, admitted,
                   translated>>

\* the same call, with the second limiter given the call as well when it is
\* client A's (and the same thing going wrong during it)
SoloCall(request, limit_type, fault) ==
    /\ CallCore(request, limit_type, fault, FALSE)
    /\ \E r \in {CheckRateLimit(solo, request, limit_type, fault, clock)} :
           IF GetClientId(request) = ClientA
           THEN solo' = r.st /\ soloLast' = r.outcome /\ otherFailed' = otherFailed
           ELSE /\ UNCHANGED <<solo, soloLast>>
                /\ otherFailed' = (otherFailed \/ (redis_available /\ ~redis_available'))
    /\ UNCHANGED <<clock, inst, stalled, admitted, translated>>

\* one client, anything may go wrong, in at most MaxFaults calls
Request == \E limit_type \in LimitTypes, fault \in Faults :
               /\ fault # NoFault => nfaults < MaxFaults
               /\ Call(ReqA, limit_type, fault, FALSE)

\* no store failure and no unexpected error
HealthyRequest == \E request \in Requests, limit_type \in LimitTypes :
                      Call(request, limit_type, NoFault, TRUE)

Next == Tick \/ Request
Spec == Init /\ [][Next]_vars

NextHealthy == Tick \/ HealthyRequest
SpecHealthy == Init /\ [][NextHealthy]_vars

\* the store fails for every operation: the first operation a call issues
\* raises a RedisError; a call that issues none meets no failure
OutageRequest ==
    \E request \in Requests, limit_type \in LimitTypes, kind \in RedisErrors :
        Call(request, limit_type,
             IF UseRedis(State) THEN [at |-> "zremrangebyscore", kind |-> kind]
             ELSE NoFault,
             TRUE)

\* two clients on one quota class, anything may go wrong in at most MaxFaults calls
SoloRequest ==
    \E request \in Requests, fault \in Faults :
        /\ fault # NoFault => nfaults < MaxFaults
        /\ SoloCall(request, <<"auth">>, fault)

NextSolo == Tick \/ SoloRequest
SpecSolo == Init /\ [][NextSolo]_vars

NextOutage == Tick \/ OutageRequest
SpecOutage == Init /\ [][NextOutage]_vars

\* ------------------------------------------- instances sharing the store
\* Each service instance runs its own limiter against the one store.  The
\* four commands of _check_redis_rate_limit are four round trips: between two
\* of them another instance's command may reach the store.  The client is
\* built with socket_connect_timeout only, so a command sent to a store that
\* has stopped responding waits for its reply without a time limit.

\* what an instance's step leaves alone
InstFrame ==
    UNCHANGED <<redis, redis_available, window_size, max_requests, memory_cache,
                clock, last, hist, lastAllowed, storeCalls, nfaults, solo,
                soloLast, otherFailed, stalled, logs, lastRequest, admitted,
                translated>>

\* key = f"rate_limit:{limit_type}:{client_id}" of the call the instance is in
InstKey(i) == RedisKey(inst[i].limit_type, ClientA)

\* an instance enters _check_redis_rate_limit: now = int(time.time())
InstBegin(i, limit_type) ==
    /\ ncalls < MaxCalls
    /\ inst[i].pc = "idle"
    /\ inst' = [inst EXCEPT ![i] = [pc |-> "start", limit_type |-> limit_type,
                                    now |-> IntTime(clock), count |-> 0,
                                    result |-> "none", raced |-> FALSE]]
    /\ ncalls' = ncalls + 1
    /\ UNCHANGED <<zsets, expiry>>
    /\ InstFrame

\* self.redis.zremrangebyscore(key, 0, now - self.window_size)
InstZRem(i) ==
    /\ inst[i].pc = "start"
    /\ ~stalled
    /\ zsets' = [zsets EXCEPT ![InstKey(i)] =
                    ZRemRangeByScore(@, 0, inst[i].now - window_size)]
    /\ expiry' = DropEmpty(zsets', expiry, InstKey(i))
    /\ inst' = [inst EXCEPT ![i].pc = "purged"]
    /\ UNCHANGED ncalls
    /\ InstFrame

\* request_count = self.redis.zcard(key); if request_count >= max_requests:
\* return False, message
InstZCard(i) ==
    /\ inst[i].pc = "purged"
    /\ ~stalled
    /\ LET request_count == ZCard(zsets[InstKey(i)])
           max == MaxRequestsGet(max_requests, inst[i].limit_type)
           \* another instance has read the count of this key and not yet appended
           raced == \E j \in Instances \ {i} :
                        inst[j].pc = "counted" /\ InstKey(j) = InstKey(i)
       IN  inst' = [inst EXCEPT ![i].count = request_count,
                                ![i].raced = raced,
                                ![i].pc = IF request_count >= max THEN "idle" ELSE "counted",
                                ![i].result = IF request_count >= max THEN "denied" ELSE "none"]
    /\ UNCHANGED <<zsets, expiry, ncalls>>
    /\ InstFrame

\* self.redis.zadd(key, {str(now): now})
InstZAdd(i) ==
    /\ inst[i].pc = "counted"
    /\ ~stalled
    /\ zsets' = [zsets EXCEPT ![InstKey(i)] = ZAdd(@, Str(inst[i].now), inst[i].now)]
    /\ inst' = [inst EXCEPT ![i].pc = "added"]
    /\ UNCHANGED <<expiry, ncalls>>
    /\ InstFrame

\* self.redis.expire(key, self.window_size * 2); return True, None
InstExpire(i) ==
    /\ inst[i].pc = "added"
    /\ ~stalled
    /\ expiry' = Expire(zsets, expiry, InstKey(i), window_size * 2, clock)
    /\ inst' = [inst EXCEPT ![i].pc = "idle", ![i].result = "allowed"]
    /\ UNCHANGED <<zsets, ncalls>>
    /\ InstFrame

\* the next command of the call the instance is in
InstStep(i) == InstZRem(i) \/ InstZCard(i) \/ InstZAdd(i) \/ InstExpire(i)

\* the store stops responding while a command is awaited
StoreStalls ==
    /\ ~stalled
    /\ \E i \in Instances : inst[i].pc # "idle"
    /\ stalled' = TRUE
    /\ UNCHANGED <<redis, redis_available, window_size, max_requests, memory_cache,
                   zsets, expiry, clock, last, hist, lastAllowed, storeCalls,
                   ncalls, nfaults, solo, soloLast, otherFailed, inst, logs,
                   lastRequest, admitted, translated>>

\* every instance was constructed with the store reachable
InitShared == Init /\ redis_available

NextInstances ==
    \/ Tick
    \/ \E i \in Instances, limit_type \in LimitTypes : InstBegin(i, limit_type)
    \/ \E i \in Instances : InstStep(i)
    \/ StoreStalls
SpecInstances == InitShared /\ [][NextInstances]_vars

\* one client calls under a quota class that max_requests does not list, no
\* store failure and no unexpected error, one call more than the default ceiling
DefaultRequest ==
    /\ ncalls < max_requests[<<"default">>] + 1
    /\ CallStep(ReqA, UnknownType, NoFault, TRUE)
    /\ UNCHANGED <<clock, solo, soloLast, otherFailed, inst, stalled, admitted,
                   translated>>

NextDefault == Tick \/ DefaultRequest
SpecDefault == Init /\ [][NextDefault]_vars

\* requests with every shape of headers, on one quota class, no store
\* failure and no unexpected error
IdentityRequest ==
    \E request \in AllRequests : Call(request, <<"auth">>, NoFault, FALSE)

NextIdentity == Tick \/ IdentityRequest
SpecIdentity == Init /\ [][NextIdentity]_vars

\* ------------------------------------------------- the two backends side by side
\* one limiter constructed with the store reachable, one with the store
\* unreachable
InitTwin == InitPair(NewLimiter(TRUE), NewLimiter(FALSE))

\* both limiters get the same call at the same clock reading, no store
\* failure and no unexpected error
TwinCall ==
    \E limit_type \in LimitTypes :
        /\ CallCore(ReqA, limit_type, NoFault, FALSE)
        /\ \E r \in {CheckRateLimit(solo, ReqA, limit_type, NoFault, clock)} :
               solo' = r.st /\ soloLast' = r.outcome
        /\ UNCHANGED <<clock, otherFailed, inst, stalled, admitted, translated>>

NextTwin == Tick \/ TwinCall
SpecTwin == InitTwin /\ [][NextTwin]_vars

\* ------------------------------------------------------- POST /v1/translate
\* mutant: the 429 is swallowed and the handler goes on
PastRateLimit_Always(http) == TRUE

\* await rate_limiter.require_rate_limit(req, "translation") returned: the
\* handler goes on only if nothing was raised
PastRateLimit(http) == http.raised = "none"

\* the first statement of translate: the rate limit check of the request
TranslateCheck ==
    \E fault \in Faults :
        /\ fault # NoFault => nfaults < MaxFaults
        /\ CallCore(ReqA, <<"translation">>, fault, FALSE)
        /\ admitted' = IF PastRateLimit(last'.http) THEN admitted + 1 ELSE admitted
        /\ UNCHANGED <<clock, solo, soloLast, otherFailed, inst, stalled, translated>>

\* what a step of the handler after the check leaves alone
TranslateFrame ==
    UNCHANGED <<redis, redis_available, window_size, max_requests, memory_cache,
                zsets, expiry, clock, last, hist, lastAllowed, storeCalls, ncalls,
                nfaults, solo, soloLast, otherFailed, inst, stalled, logs,
                lastRequest>>

\* result = await translation_service.translate(...)
TranslateInvoke ==
    /\ admitted > 0
    /\ admitted' = admitted - 1
    /\ translated' = translated + 1
    /\ TranslateFrame

\* the handler leaves before the translation call: 503 without a translation
\* service, 400 for an unsupported language code
TranslateRefuse ==
    /\ admitted > 0
    /\ admitted' = admitted - 1
    /\ translated' = translated
    /\ TranslateFrame

NextTranslate == Tick \/ TranslateCheck \/ TranslateInvoke \/ TranslateRefuse
SpecTranslate == Init /\ [][NextTranslate]_vars

\* ------------------------------------------------ the source's constants
\* One client calls check("translation") with window_size = 60 and
\* max_requests["translation"] = 10: once a second until one call more than
\* the ceiling has been made, and once more one second after a whole window.

SourceMaxRequests ==
    (<<"translation">> :> SourceMaxTranslation) @@ (<<"auth">> :> SourceMaxAuth)
        @@ (<<"default">> :> SourceMaxDefault)

\* the clock reading, in seconds, of the nth call
ScenarioTime(n) ==
    IF n <= SourceMaxTranslation + 1 THEN n - 1 ELSE SourceWindowSize + 1
\* the number of calls
ScenarioCalls == SourceMaxTranslation + 2

InitScenario ==
    \E ping_ok \in BOOLEAN :
        InitWith([NewLimiter(ping_ok) EXCEPT !.window_size = SourceWindowSize,
                                             !.max_requests = SourceMaxRequests])

\* the next call is due at this clock reading
CallDue == ncalls < ScenarioCalls /\ clock = Ticks(ScenarioTime(ncalls + 1))

ScenarioCall ==
    /\ CallDue
    /\ CallStep(ReqA, <<"translation">>, NoFault, TRUE)
    /\ UNCHANGED <<clock, solo, soloLast, otherFailed, inst, stalled, admitted,
                   translated>>

ScenarioTick == ~CallDue /\ clock < Ticks(ScenarioTime(ScenarioCalls)) /\ Advance

NextScenario == ScenarioTick \/ ScenarioCall
SpecScenario == InitScenario /\ [][NextScenario]_vars

\* ------------------------------------------- time-to-live over two windows
\* One client on "translation" with window_size = 60, the store reachable at
\* construction; the clock moves a quarter of a window at a time, until the
\* time-to-live of a key written at clock reading 0 has run out.  Anything may
\* go wrong, in up to MaxFaults + 1 calls.

InitTTL ==
    InitWith([NewLimiter(TRUE) EXCEPT !.window_size = SourceWindowSize,
                                      !.max_requests = SourceMaxRequests])

QuarterWindow == Ticks(window_size) \div 4

Leap ==
    /\ clock < Ticks(2 * window_size)
    /\ AdvanceBy(QuarterWindow)

TTLRequest ==
    \E fault \in Faults :
        /\ fault # NoFault => nfaults <= MaxFaults
        /\ Call(ReqA, <<"translation">>, fault, FALSE)

NextTTL == Leap \/ TTLRequest
SpecTTL == InitTTL /\ [][NextTTL]_vars

\* ------------------------------------------------------------- properties
\* the ceiling of a pair <<limit_type, client_id>>
Ceiling(p) == MaxRequestsGet(max_requests, p[1])
\* all calls made so far on the pair lie within a span shorter than window_size
WithinOneWindow(p) ==
    Len(hist[p]) > 0 => hist[p][Len(hist[p])].t - hist[p][1].t < Ticks(window_size)
\* the allowed calls of the pair
AllowedCalls(p) == {i \in DOMAIN hist[p] : hist[p][i].allowed}
\* the allowed calls of the pair whose time lies in the trailing window
AllowedInWindow(p) == {i \in AllowedCalls(p) : clock - hist[p][i].t < Ticks(window_size)}

\* C1: of the calls made on one pair within a span shorter than window_size,
\* the Nth is allowed if and only if N <= max_requests[quota class], in either
\* backend, also when calls carry the same clock reading.
C1_NthCallAllowedIffWithinCeiling ==
    \A p \in Pairs :
        WithinOneWindow(p) =>
            \A n \in DOMAIN hist[p] : hist[p][n].allowed <=> n <= Ceiling(p)

SlidingWindowAllows(p, n) ==
    Cardinality({i \in 1..(n - 1) : /\ hist[p][i].allowed
                                    /\ hist[p][n].t - hist[p][i].t < Ticks(window_size)})
        < Ceiling(p)

\* C4: with every store operation failing, each call returns the decision of
\* the sliding-window algorithm, and no call after the first failed store
\* operation issues a store operation (the store sees at most one operation).
C4_OutageDecidesInProcessWithoutRetry ==
    /\ storeCalls <= 1
    /\ ncalls > 0 /\ ~last.was_available => last.ops = <<>>
    /\ \A p \in Pairs : \A n \in DOMAIN hist[p] :
           hist[p][n].allowed <=> SlidingWindowAllows(p, n)

\* C4 witness: the first call failed on the store, and a later call was denied
\* by the in-process record without touching the store.
C4_Witness ==
    /\ ncalls >= 2
    /\ storeCalls = 1
    /\ last.backend = "memory"
    /\ last.ops = <<>>
    /\ ~last.outcome.allowed

\* the last call's ceiling
LastCeiling == MaxRequestsGet(max_requests, last.limit_type)
\* the timestamps of the in-process record read by the last call that are
\* younger than window_size at its clock reading
LastYounger == {i \in DOMAIN last.before : last.now - last.before[i] < Ticks(window_size)}
\* the store failures of the claim: unreachable, timeout, protocol error
StoreFailures == {"ConnectionError", "TimeoutError", "ResponseError"}

\* C5: if one of the four store operations of a call fails (unreachable,
\* timeout, protocol error), that call sets Backend Mode to unavailable and
\* returns the decision of the in-process algorithm, and nothing else.
C5_StoreFailureFallsBack ==
    (ncalls > 0 /\ last.fault.at \in StoreOps /\ last.fault.kind \in StoreFailures) =>
        /\ ~redis_available
        /\ last.outcome.how = "return"
        /\ last.backend = "memory"
        /\ last.outcome.allowed <=> Cardinality(LastYounger) < LastCeiling
        /\ last.ops[Len(last.ops)] = last.fault.at

\* C5 witness: the fourth operation (set expiry) timed out; the call switched
\* the mode and was decided by the in-process record.
C5_Witness ==
    /\ ncalls > 0
    /\ last.fault = [at |-> "expire", kind |-> "TimeoutError"]
    /\ last.was_available
    /\ ~redis_available
    /\ last.backend = "memory"

\* C6: check never raises; on an unexpected internal error it returns
\* allowed = true with no retry hint.
C6_CheckFailsOpen ==
    ncalls > 0 =>
        /\ last.outcome.how = "return"
        /\ last.fault.kind \in OtherErrors => last.outcome = Return(TRUE, None)

\* C6 witness: the counting logic raised on a key whose record was full (the
\* call would have been denied), and the call was allowed.
C6_Witness ==
    /\ ncalls > 0
    /\ last.fault.at = "memory"
    /\ Cardinality(LastYounger) >= LastCeiling
    /\ last.outcome.allowed

\* C7: enforce raises the 429 exactly when check returns not allowed,
\* otherwise returns without raising; it raises nothing else.
C7_EnforceRaisesOnly429OnDenial ==
    ncalls > 0 =>
        /\ last.http.raised \in {"none", "HTTPException"}
        /\ last.http.raised = "HTTPException" <=> ~last.outcome.allowed
        /\ last.http.raised = "HTTPException" <=> last.http.status = TooManyRequests

\* C7 witness: a 429 raised by a call decided in process after a store failure
\* had switched the mode.
C7_Witness ==
    /\ nfaults > 0
    /\ ~redis_available
    /\ last.backend = "memory"
    /\ last.http.status = TooManyRequests
    /\ last.http.raised = "HTTPException"

\* C8: a call made more than window_size after the allowed calls of its pair
\* (in particular after max_requests of them) is allowed again.
C8_AllowedAgainAfterWindow ==
    (ncalls > 0 /\ \E t0 \in last.prev_allowed : last.t - t0 > Ticks(window_size)) =>
        last.outcome.allowed

\* C8 witness: the record held max_requests timestamps, and the call came more
\* than window_size after the last of them.
C8_Witness ==
    /\ ncalls > LastCeiling
    /\ last.fault = NoFault
    /\ \E t0 \in last.prev_allowed : last.t - t0 > Ticks(window_size)
    /\ \/ last.backend = "redis" /\ Cardinality(last.zbefore) >= LastCeiling
       \/ last.backend = "memory" /\ Len(last.before) >= LastCeiling
    /\ last.outcome.allowed

\* C9 as stated: the timestamps counted at a check are exactly those with
\* now - window_size <= t <= now.
C9_CountsClosedWindow ==
    ncalls > 0 =>
        /\ last.backend = "memory" /\ last.fault = NoFault =>
             last.request_count =
                 Cardinality({i \in DOMAIN last.before :
                                /\ last.now - Ticks(window_size) <= last.before[i]
                                /\ last.before[i] <= last.now})
        /\ last.backend = "redis" /\ last.fault = NoFault =>
             last.request_count =
                 Cardinality({e \in last.zbefore :
                                /\ last.now - window_size <= e.score
                                /\ e.score <= last.now})

\* C9 amended: the timestamps counted at a check are exactly those with
\* now - window_size < t <= now; one exactly window_size old is purged.
C9_CountsHalfOpenWindow ==
    ncalls > 0 =>
        /\ last.backend = "memory" /\ last.fault = NoFault =>
             last.request_count =
                 Cardinality({i \in DOMAIN last.before :
                                /\ last.now - Ticks(window_size) < last.before[i]
                                /\ last.before[i] <= last.now})
        /\ last.backend = "redis" /\ last.fault = NoFault =>
             last.request_count =
                 Cardinality({e \in last.zbefore :
                                /\ last.now - window_size < e.score
                                /\ e.score <= last.now})

\* C9 witness: the in-process record held a timestamp exactly window_size old
\* and a younger one; only the younger one was counted.
C9_Witness ==
    /\ ncalls > 0
    /\ last.backend = "memory"
    /\ last.fault = NoFault
    /\ \E i \in DOMAIN last.before : last.now - last.before[i] = Ticks(window_size)
    /\ \E i \in DOMAIN last.before : last.now - last.before[i] < Ticks(window_size)
    /\ last.request_count = 1

\* client A's in-process records and store records
RecordsOfA(cache, zs) ==
    [lt \in LimitTypes |->
        [mem |-> IF MemoryKey(lt, ClientA) \in DOMAIN cache
                 THEN <<cache[MemoryKey(lt, ClientA)]>> ELSE <<>>,
         zset |-> zs[RedisKey(lt, ClientA)]]]
\* this step is a call of client B
CallOfB == ncalls' = ncalls + 1 /\ last'.client_id = ClientB

RecordOf(cache, zs, limit_type, client_id) ==
    [mem |-> IF MemoryKey(limit_type, client_id) \in DOMAIN cache
             THEN <<cache[MemoryKey(limit_type, client_id)]>> ELSE <<>>,
     zset |-> zs[RedisKey(limit_type, client_id)]]
\* this step is a call
IsCall == ncalls' = ncalls + 1
\* the timestamps of the store record read by the last call that are younger
\* than window_size at its clock reading
LastZYounger == {e \in last.zbefore : last.now - e.score < window_size}
\* the record of the pair is full of timestamps younger than window_size
Exhausted(limit_type, client_id) ==
    LET max == MaxRequestsGet(max_requests, limit_type)
        mkey == MemoryKey(limit_type, client_id)
    IN  \/ /\ mkey \in DOMAIN memory_cache
           /\ Cardinality({i \in DOMAIN memory_cache[mkey] :
                              clock - memory_cache[mkey][i] < Ticks(window_size)}) >= max
        \/ Cardinality({e \in zsets[RedisKey(limit_type, client_id)] :
                           IntTime(clock) - e.score < window_size}) >= max

\* C11: one identity is counted independently under each quota class: a call
\* under one class leaves the identity's record under every other class
\* unchanged, and a call is denied only when the record of its own class is
\* full, whatever the other classes' records hold.
C11_ClassesCountedIndependently ==
    /\ []((ncalls > 0 /\ ~last.outcome.allowed) =>
             \/ last.backend = "memory" /\ Cardinality(LastYounger) >= LastCeiling
             \/ last.backend = "redis" /\ Cardinality(LastZYounger) >= LastCeiling)
    /\ [][IsCall =>
             \A lt \in LimitTypes \ {last'.limit_type} :
                 RecordOf(memory_cache', zsets', lt, last'.client_id)
                     = RecordOf(memory_cache, zsets, lt, last'.client_id)]_vars

\* C11 witness: the identity's "auth" record is full, and its call under
\* "translation" was allowed.
C11_Witness ==
    /\ ncalls >= 2
    /\ last.limit_type = <<"translation">>
    /\ last.fault = NoFault
    /\ nfaults = 0
    /\ Exhausted(<<"auth">>, last.client_id)
    /\ last.outcome.allowed

\* C12: two instances whose commands on one key interleave never both read a
\* count one below the ceiling (one slot remaining) and both get allowed.
C12_CountThenAppendAtomic ==
    \A i \in Instances : \A j \in Instances \ {i} :
        (/\ inst[i].limit_type = inst[j].limit_type
         /\ inst[j].raced
         /\ inst[i].count = MaxRequestsGet(max_requests, inst[i].limit_type) - 1
         /\ inst[j].count = inst[i].count)
            => ~(inst[i].result = "allowed" /\ inst[j].result = "allowed")

\* C13: Backend Mode is what the one probe of the constructor found (a
\* limiter without a client handle is never in shared-store mode); afterwards
\* it changes only from available to unavailable, only in a call during which
\* a store operation failed, and never back.
C13_ModeOnlyDemotedByStoreFailure ==
    /\ [](redis = None => ~redis_available)
    /\ [][redis' = redis]_vars
    /\ [][~redis_available => ~redis_available']_vars
    /\ [][redis_available' # redis_available =>
             /\ IsCall
             /\ last'.was_available
             /\ last'.fault.at \in StoreOps
             /\ last'.fault.kind \in StoreFailures
             /\ last'.ops # <<>>]_vars

\* C13 witness: a limiter constructed with the store reachable was demoted by
\* a failed store operation, and a later call left it demoted.
C13_Witness ==
    /\ ncalls >= 2
    /\ redis # None
    /\ nfaults = 1
    /\ ~last.was_available
    /\ last.fault = NoFault
    /\ ~redis_available

\* the decisions of the scenario: the calls up to the ceiling are allowed, the
\* next one is denied with a retry hint, the one after the window is allowed
ScenarioDecisions ==
    /\ ncalls > 0 => last.t = Ticks(ScenarioTime(ncalls))
    /\ ncalls \in 1..SourceMaxTranslation => last.outcome.allowed
    /\ ncalls = SourceMaxTranslation + 1 =>
          /\ ~last.outcome.allowed
          /\ last.outcome.message # None
          /\ last.request_count = SourceMaxTranslation
    /\ ncalls = SourceMaxTranslation + 2 => last.outcome.allowed

\* C14 as stated: ... and at the call at t = 61 all ten prior entries have
\* expired (none is counted).
C14_ScenarioAllExpired ==
    /\ ScenarioDecisions
    /\ ncalls = SourceMaxTranslation + 2 => last.request_count = 0

\* C14 amended: with window_size = 60 and max_requests[translation] = 10, the
\* ten calls at t = 0..9 are allowed, call 11 at t = 10 is denied with a retry
\* hint, call 12 at t = 61 is allowed; at t = 61 only the entries of t = 0 and
\* t = 1 have expired, the other eight are still counted.
C14_ScenarioTwoExpired ==
    /\ ScenarioDecisions
    /\ ncalls = SourceMaxTranslation + 2 => last.request_count = SourceMaxTranslation - 2

\* C14 witness: call 12 was made at t = 61 on a record of ten entries and allowed.
C14_Witness ==
    /\ ncalls = SourceMaxTranslation + 2
    /\ last.t = Ticks(SourceWindowSize + 1)
    /\ Len(last.before) = SourceMaxTranslation \/ Cardinality(last.zbefore) = SourceMaxTranslation
    /\ last.outcome.allowed

\* the number of seconds a message tells the caller to wait
RetryHint(message) == message[2]

\* C15: a denied check returns a retry hint equal to window_size seconds, and
\* enforce raises the 429 with that hint as its detail; an allowed check
\* returns no retry hint.
C15_DenialCarriesRetryHint ==
    ncalls > 0 =>
        /\ ~last.outcome.allowed =>
              /\ last.outcome.message # None
              /\ RetryHint(last.outcome.message) = window_size
              /\ last.http.status = TooManyRequests
              /\ last.http.detail = last.outcome.message
        /\ last.outcome.allowed =>
              /\ last.outcome.message = None
              /\ last.http.detail = None

\* C15 witness: a call denied by the store record, its 429 carrying the hint.
C15_Witness ==
    /\ ncalls > 0
    /\ last.backend = "redis"
    /\ ~last.outcome.allowed
    /\ last.http.raised = "HTTPException"
    /\ RetryHint(last.http.detail) = window_size

\* C16: a quota class without an entry in max_requests is limited by
\* max_requests["default"]: of its calls within a span shorter than
\* window_size, the Nth is allowed if and only if N <= max_requests["default"].
C16_UnknownClassUsesDefault ==
    \A c \in ClientIds :
        WithinOneWindow(<<UnknownType, c>>) =>
            \A n \in DOMAIN hist[<<UnknownType, c>>] :
                hist[<<UnknownType, c>>][n].allowed <=> n <= max_requests[<<"default">>]

\* C17: in every reachable state the record of each pair holds at most
\* max_requests[quota class] timestamps, in process and in the store.
C17_RecordAtMostCeiling ==
    \A lt \in AllLimitTypes : \A c \in ClientIds :
        /\ MemoryKey(lt, c) \in DOMAIN memory_cache =>
              Len(memory_cache[MemoryKey(lt, c)]) <= MaxRequestsGet(max_requests, lt)
        /\ Cardinality(zsets[RedisKey(lt, c)]) <= MaxRequestsGet(max_requests, lt)

\* C18: every key of the store that holds timestamps has a time-to-live, and
\* a call that has written to a key leaves it with a time-to-live of
\* 2 x window_size counted from that call.
C18_StoredKeysCarryTTL ==
    /\ \A k \in RedisKeys : zsets[k] # {} => k \in DOMAIN expiry
    /\ (/\ ncalls > 0
        /\ "zadd" \in {last.ops[n] : n \in DOMAIN last.ops}
        /\ last.fault.at # "zadd"
        /\ clock = last.t) =>
          /\ RedisKey(last.limit_type, last.client_id) \in DOMAIN expiry
          /\ expiry[RedisKey(last.limit_type, last.client_id)]
                 = last.t + Ticks(2 * window_size)

\* C19: a call that has entered the store path can always go on to its
\* decision: whatever the store does, its next step (the reply to the command
\* it waits for, or the timeout of that command) is possible.
C19_CallInFlightCanProceed ==
    \A i \in Instances : inst[i].pc # "idle" => ENABLED InstStep(i)

\* C20: over a run of one process, however long the store keeps failing and
\* however many calls are made, the calls write at most one store-failure log
\* record: the one of the call that switched Backend Mode.
C20_StoreFailureLoggedOnce ==
    /\ logs <= 1
    /\ logs = 1 <=> (redis # None /\ ~redis_available)
    /\ (ncalls > 0 /\ last.log = 1) => (last.was_available /\ ~redis_available)

\* C20 witness: the store kept failing; the first call logged the failure and
\* two later calls logged nothing.
C20_Witness ==
    /\ ncalls >= 3
    /\ logs = 1
    /\ storeCalls = 1
    /\ ~last.was_available
    /\ last.log = 0

BearerPresent(request) ==
    /\ request.authorization # NoHeader
    /\ Len(request.authorization) >= 2
    /\ request.authorization[1] = <<"Bearer">>
IdentityByRule(request) ==
    IF BearerPresent(request)
    THEN <<"auth_">> \o Suffix(request.authorization[2], SuffixLen)
    ELSE IF request.forwarded # NoHeader
         THEN request.forwarded[1]
         ELSE request.host

\* C22: the identity of a request is the suffix of its bearer token when a
\* bearer credential is present, else the first forwarded-for address when
\* that header is present, else the peer address; a malformed or non-bearer
\* authorization header falls through to the next source.
C22_IdentityByPrecedence ==
    ncalls > 0 => last.client_id = IdentityByRule(lastRequest)

\* C23: translation_service.translate is called only for a request whose rate
\* limit check has completed and allowed it; a request whose check was denied
\* gets the 429 and never reaches the translation call.
C23_CheckedBeforeTranslated ==
    /\ [](translated + admitted <= ncalls)
    /\ [][translated' > translated =>
             /\ admitted > 0
             /\ admitted' = admitted - 1
             /\ translated' = translated + 1]_vars
    /\ [][IsCall =>
             /\ translated' = translated
             /\ last'.outcome.allowed => admitted' = admitted + 1
             /\ ~last'.outcome.allowed =>
                   /\ admitted' = admitted
                   /\ last'.http.status = TooManyRequests]_vars

\* C23 witness: two requests were checked; the allowed one was translated, the
\* denied one got the 429 and nothing is left to translate.
C23_Witness ==
    /\ ncalls >= 2
    /\ translated = 1
    /\ admitted = 0
    /\ ~last.outcome.allowed
    /\ last.http.status = TooManyRequests

\* the number of timestamps younger than window_size in a store record and in
\* an in-process record, at the present clock reading
StoreInWindow(zs, limit_type, client_id) ==
    Cardinality({e \in zs[RedisKey(limit_type, client_id)] :
                   IntTime(clock) - e.score < window_size})
MemoryInWindow(cache, limit_type, client_id) ==
    IF MemoryKey(limit_type, client_id) \in DOMAIN cache
    THEN Cardinality({i \in DOMAIN cache[MemoryKey(limit_type, client_id)] :
                        clock - cache[MemoryKey(limit_type, client_id)][i]
                            < Ticks(window_size)})
    ELSE 0

\* C24: fed the same calls at the same times with no store failure, the
\* shared-store backend and the in-process backend return the same decision
\* for every call and hold the same number of in-window timestamps for every
\* key after every call.
C24_BackendsAgree ==
    ncalls > 0 =>
        /\ last.outcome.allowed = soloLast.allowed
        /\ clock = last.t =>
              \A lt \in LimitTypes :
                  StoreInWindow(zsets, lt, ClientA)
                      = MemoryInWindow(solo.memory_cache, lt, ClientA)

\* C25: a denied check adds no timestamp: after it the record of its key holds
\* exactly the timestamps of before that are still inside the window, in the
\* backend that decided the call, and no record has gained a timestamp.
C25_DeniedRecordsNothing ==
    [][(IsCall /\ ~last'.outcome.allowed) =>
          LET mk == MemoryKey(last'.limit_type, last'.client_id)
              rk == RedisKey(last'.limit_type, last'.client_id)
              Young(timestamp) == last'.now - timestamp < Ticks(window_size)
          IN  /\ last'.backend = "redis" =>
                    /\ memory_cache' = memory_cache
                    /\ zsets'[rk] = {e \in zsets[rk] : last'.now - e.score < window_size}
              /\ last'.backend = "memory" =>
                    /\ mk \in DOMAIN memory_cache
                    /\ memory_cache'[mk] = SelectSeq(memory_cache[mk], Young)
                    /\ zsets'[rk] \subseteq zsets[rk]
              /\ \A k \in DOMAIN zsets \ {rk} : zsets'[k] = zsets[k]
              /\ \A k \in DOMAIN memory_cache \ {mk} : memory_cache'[k] = memory_cache[k]
              /\ lastAllowed' = lastAllowed]_vars

\* C25 witness: a second denied attempt in a row on a full in-process record,
\* which still holds exactly the ceiling's number of timestamps.
C25_Witness ==
    /\ ncalls >= 3
    /\ last.backend = "memory"
    /\ ~last.outcome.allowed
    /\ last.before = memory_cache[MemoryKey(last.limit_type, last.client_id)]
    /\ Len(last.before) = LastCeiling
    /\ last.prev_allowed # {}

\* C26: window_size is a safe retry hint: a call made window_size or more
\* after a denied call of its pair, with no call of the pair allowed in
\* between, is allowed.
C26_AllowedWindowAfterDenial ==
    \A p \in Pairs : \A n \in DOMAIN hist[p] : \A i \in 1..(n - 1) :
        (/\ ~hist[p][i].allowed
         /\ hist[p][n].t - hist[p][i].t >= Ticks(window_size)
         /\ \A j \in (i + 1)..(n - 1) : ~hist[p][j].allowed)
            => hist[p][n].allowed

\* C26 witness: a pair was allowed and denied at the same clock reading, and
\* its next call, exactly window_size later, was allowed.
C26_Witness ==
    \E p \in Pairs :
        /\ Len(hist[p]) = 3
        /\ hist[p][1].allowed /\ hist[p][1].t = hist[p][2].t
        /\ ~hist[p][2].allowed
        /\ hist[p][3].t - hist[p][2].t = Ticks(window_size)
        /\ hist[p][3].allowed

\* C27: an allowed check leaves its key with exactly one timestamp more than
\* the count it read after the purge, in both backends, also when another
\* allowed check of the key carried the same clock reading.
C27_AllowedAddsOneEntry ==
    (/\ ncalls > 0
     /\ last.fault = NoFault
     /\ last.outcome.allowed
     /\ clock = last.t) =>
        /\ last.backend = "memory" =>
              Len(memory_cache[MemoryKey(last.limit_type, last.client_id)])
                  = last.request_count + 1
        /\ last.backend = "redis" =>
              ZCard(zsets[RedisKey(last.limit_type, last.client_id)])
                  = last.request_count + 1

\* the timestamps of an in-process record (none for a key not in the mapping)
Timestamps(cache, key) == IF key \in DOMAIN cache THEN cache[key] ELSE <<>>

\* C28: a call that fails open on an unexpected error leaves Backend Mode and
\* the timestamps of every in-process record as they were, so the next call
\* takes the same backend path; when the error arose outside the store
\* operations the store is left as it was too.
C28_FailOpenRecordsNothing ==
    [][(IsCall /\ last'.backend = "failopen") =>
          /\ redis_available' = redis_available
          /\ redis' = redis
          /\ UseRedis(State)' = UseRedis(State)
          /\ \A lt \in AllLimitTypes : \A c \in ClientIds :
                 Timestamps(memory_cache', MemoryKey(lt, c))
                     = Timestamps(memory_cache, MemoryKey(lt, c))
          /\ last'.fault.at \notin StoreOps =>
                 (zsets' = zsets /\ expiry' = expiry)]_vars

\* C28 witness: in shared-store mode an unexpected error made the call fail
\* open, and the limiter is still in shared-store mode.
C28_Witness ==
    /\ ncalls >= 2
    /\ last.backend = "failopen"
    /\ last.fault.kind \in OtherErrors
    /\ last.was_available
    /\ redis_available
    /\ last.outcome = Return(TRUE, None)

C30_KeysOnlyGrow ==
    [][/\ DOMAIN memory_cache \subseteq DOMAIN memory_cache'
       /\ \A k \in DOMAIN memory_cache :
             memory_cache'[k] # memory_cache[k] =>
                 /\ IsCall
                 /\ k = MemoryKey(last'.limit_type, last'.client_id)]_vars

\* a key all of whose timestamps have left the window is still in the mapping
\* after an in-process check of another key
C30_Witness ==
    /\ last.backend = "memory"
    /\ \E k \in DOMAIN memory_cache :
          /\ k # MemoryKey(last.limit_type, last.client_id)
          /\ memory_cache[k] # <<>>
          /\ \A i \in DOMAIN memory_cache[k] :
                ~InWindow(clock, memory_cache[k][i], window_size)

====
